---- MODULE Spec2Model ----
(***************************************************************************)
(* Model of src/client2server.ts: the server-side ingestion of client      *)
(* operations.  handleClientOperation reserves one per-user sequence       *)
(* number (one UPDATE ... RETURNING statement) and then runs the handler   *)
(* of the operation's type, which is one INSERT ... ON CONFLICT statement. *)
(* Several calls run concurrently; each statement is atomic, the two       *)
(* statements of one call are not (D1 has no transactions).                *)
(*                                                                         *)
(* Tables are sets of rows.  Strings that are only compared for equality   *)
(* are TLA+ strings; clientIds, which SQLite orders bytewise, are          *)
(* sequences of byte values.  A Date column holds the millisecond time     *)
(* value of new Date(op.timestamp), which for an integer timestamp in the  *)
(* Date range is the timestamp.                                            *)
(***************************************************************************)
EXTENDS Integers, Sequences, FiniteSets, TLC

\* ------------------------------------------------------------------ bounds
\* number of handleClientOperation calls started in one behaviour
MaxOps == 2

\* ------------------------------------------------------ input value sets
\* rows of the users table at start; "u0" is a userId with no users row
ExistingUsers == {"u1", "u2"}
UserIds == ExistingUsers \cup {"u0"}

\* "AB" and "B" as byte strings
ClientIds == {<<65, 66>>, <<66>>}
Timestamps == {1, 2}

CardIds == {"c1", "c2"}
DeckIds == {"d1", "d2"}
ReviewLogIds == {"r1", "r2"}
PayloadVariants == {1, 2}

LwwTypes == {"card", "cardContent", "cardDeleted", "cardBookmarked",
             "cardSuspended", "deck", "reviewLogDeleted"}
OperationTypes == LwwTypes \cup {"reviewLog", "updateDeckCard"}
\* what a caller may pass at run time: the nine types and a type outside them
RuntimeTypes == OperationTypes \cup {"unknown"}

\* --------------------------------------------------- operation payloads
CardPayload(id, v) ==
    [id |-> id, due |-> v, stability |-> 10 + v, difficulty |-> 20 + v,
     elapsed_days |-> 30 + v, scheduled_days |-> 40 + v, reps |-> 50 + v,
     lapses |-> 60 + v, state |-> 70 + v, last_review |-> 80 + v]

ReviewLogPayload(id, cardId, v) ==
    [id |-> id, cardId |-> cardId, grade |-> v, state |-> 10 + v,
     due |-> 20 + v, stability |-> 30 + v, difficulty |-> 40 + v,
     elapsed_days |-> 50 + v, last_elapsed_days |-> 60 + v,
     scheduled_days |-> 70 + v, review |-> 80 + v, duration |-> 90 + v]

DeckPayload(id, v) ==
    [id |-> id, name |-> v, description |-> 10 + v, deleted |-> (v = 2)]

\* payloads of one type over the given ids; variant v fixes every other field
Payloads(type, cs, ds, rs, vs) ==
    CASE type = "card" -> {CardPayload(c, v) : c \in cs, v \in vs}
      [] type = "cardContent" ->
            {[cardId |-> c, front |-> v, back |-> 10 + v] : c \in cs, v \in vs}
      [] type = "cardDeleted" ->
            {[cardId |-> c, deleted |-> (v = 2)] : c \in cs, v \in vs}
      [] type = "cardBookmarked" ->
            {[cardId |-> c, bookmarked |-> (v = 2)] : c \in cs, v \in vs}
      [] type = "cardSuspended" ->
            {[cardId |-> c, suspended |-> (v = 2)] : c \in cs, v \in vs}
      [] type = "deck" -> {DeckPayload(d, v) : d \in ds, v \in vs}
      [] type = "reviewLogDeleted" ->
            {[reviewLogId |-> r, deleted |-> (v = 2)] : r \in rs, v \in vs}
      [] type = "reviewLog" ->
            {ReviewLogPayload(r, c, v) : r \in rs, c \in cs, v \in vs}
      [] type = "updateDeckCard" ->
            {[cardId |-> c, deckId |-> d, clCount |-> v] :
                c \in cs, d \in ds, v \in vs}
      [] OTHER -> {[id |-> c] : c \in cs}

\* ClientToServer<Operation>: the operation plus clientId and userId
ClientToServer(types, tss, clients, uids, cs, ds, rs, vs) ==
    UNION {[type : {t}, timestamp : tss, payload : Payloads(t, cs, ds, rs, vs),
            clientId : clients, userId : uids] : t \in types}

\* the cases of the switch in their order, then the type outside them
SwitchOrder ==
    <<"card", "reviewLog", "reviewLogDeleted", "cardContent", "cardDeleted",
      "cardBookmarked", "cardSuspended", "deck", "updateDeckCard", "unknown">>

\* the type after t in SwitchOrder, cyclically
NextType(t) ==
    LET i == CHOOSE k \in DOMAIN SwitchOrder : SwitchOrder[k] = t
    IN  SwitchOrder[(i % Len(SwitchOrder)) + 1]

\* The operations sent in one behaviour: every operation of one type by the
\* existing users on the first key, one operation of that type by the user
\* without a users row, and on the second key one operation of that type
\* and one of the next type.
FocusOps(t) ==
    ClientToServer({t}, Timestamps, ClientIds, ExistingUsers,
                   {"c1"}, {"d1"}, {"r1"}, PayloadVariants)
MissingUserOps(t) ==
    ClientToServer({t}, {1}, {<<66>>}, UserIds \ ExistingUsers,
                   {"c1"}, {"d1"}, {"r1"}, {1})
BackgroundOps(t) ==
    ClientToServer({t, NextType(t)}, {1}, {<<66>>}, {"u1"},
                   {"c2"}, {"d2"}, {"r2"}, {1})
Universe(t) == FocusOps(t) \cup MissingUserOps(t) \cup BackgroundOps(t)

VARIABLES
    users,             \* users table: rows [id, nextSeqNo]
    cards, cardContents, cardDeleted, cardBookmarked, cardSuspended,
    decks, reviewLogDeleted, reviewLogs, cardDecks,
    inflight,          \* calls between their two statements: [op, seqNo]
    lastResult,        \* how the call that ended last ended
    merged,            \* number of handler statements completed
    started,           \* number of calls started
    focus,             \* the type whose operations vary in this behaviour
    applied,           \* history: operations whose handler statement completed
    reservations,      \* history: [userId, firstSeqNo, length] in reservation order
    burned,            \* history: [userId, seqNo] of calls whose statement failed
    opsBatch,          \* the batch passed to validateOpCount
    opCountResult      \* what validateOpCount returned: no or one ValidateOpCountResult

tables == <<cards, cardContents, cardDeleted, cardBookmarked, cardSuspended,
            decks, reviewLogDeleted, reviewLogs, cardDecks>>
calls == <<inflight, lastResult, started, merged>>
batch == <<opsBatch, opCountResult>>
vars == <<users, tables, calls, focus, applied, reservations, burned, batch>>

\* ------------------------------------------------------------ SQL pieces
RECURSIVE StrLess(_, _)
\* SQLite BINARY collation: bytewise, a proper prefix sorts first
StrLess(a, b) ==
    IF a = <<>> THEN b # <<>>
    ELSE IF b = <<>> THEN FALSE
    ELSE IF Head(a) # Head(b) THEN Head(a) < Head(b)
    ELSE StrLess(Tail(a), Tail(b))

\* setWhere without the clientId arm
LwwSetWhere_TimestampOnly(excluded, row) ==
    excluded.lastModified > row.lastModified

\* setWhere with >= in the clientId arm
LwwSetWhere_NotStrict(excluded, row) ==
    \/ excluded.lastModified > row.lastModified
    \/ /\ excluded.lastModified = row.lastModified
       /\ ~StrLess(excluded.lastModifiedClient, row.lastModifiedClient)

\* setWhere with the operands of the clientId arm swapped
LwwSetWhere_Swapped(excluded, row) ==
    \/ excluded.lastModified > row.lastModified
    \/ /\ excluded.lastModified = row.lastModified
       /\ StrLess(excluded.lastModifiedClient, row.lastModifiedClient)

\* setWhere of the seven last-write-wins handlers
LwwSetWhere(excluded, row) ==
    \/ excluded.lastModified > row.lastModified
    \/ /\ excluded.lastModified = row.lastModified
       /\ StrLess(row.lastModifiedClient, excluded.lastModifiedClient)

\* setWhere with != for >
ClCountSetWhere_NotEqual(excluded, row) == excluded.clCount # row.clCount

\* setWhere with < for >
ClCountSetWhere_Less(excluded, row) == excluded.clCount < row.clCount

\* setWhere of handleUpdateDeckCardOperation
ClCountSetWhere(excluded, row) == excluded.clCount > row.clCount

\* UPDATE ... SET: the row with the fields of set overwritten
UpdateSet(row, set) ==
    [f \in DOMAIN row |-> IF f \in DOMAIN set THEN set[f] ELSE row[f]]

\* a conflict test that leaves the target columns out
Conflicting_AnyRow(table, target, values) == table

\* rows of table that conflict with values on the target columns
Conflicting(table, target, values) ==
    {r \in table : \A f \in target : r[f] = values[f]}

\* INSERT ... ON CONFLICT (target) DO UPDATE SET set WHERE setWhere;
\* where: the rows of the table of which setWhere holds
InsertOnConflictDoUpdate(table, target, values, set, where) ==
    IF Conflicting(table, target, values) = {}
    THEN table \cup {values}
    ELSE {IF r \in Conflicting(table, target, values) /\ r \in where
          THEN UpdateSet(r, set) ELSE r : r \in table}

\* INSERT OR REPLACE
InsertOrReplace(table, target, values) ==
    (table \ Conflicting(table, target, values)) \cup {values}

\* INSERT ... ON CONFLICT (target) DO NOTHING
InsertOnConflictDoNothing(table, target, values) ==
    IF Conflicting(table, target, values) = {}
    THEN table \cup {values}
    ELSE table

\* the record r without the fields in drop
Without(r, drop) == [f \in DOMAIN r \ drop |-> r[f]]

\* ------------------------------------------------------------------ Init
Init ==
    /\ users = {[id |-> u, nextSeqNo |-> 1] : u \in ExistingUsers}
    /\ cards = {} /\ cardContents = {} /\ cardDeleted = {}
    /\ cardBookmarked = {} /\ cardSuspended = {} /\ decks = {}
    /\ reviewLogDeleted = {} /\ reviewLogs = {} /\ cardDecks = {}
    /\ inflight = {}
    /\ lastResult = "none"
    /\ started = 0
    /\ merged = 0
    /\ focus \in RuntimeTypes
    /\ applied = {}
    /\ reservations = <<>>
    /\ burned = {}
    /\ opsBatch = <<>>
    /\ opCountResult = {}

\* ---------------------------------------------------------- reserveSeqNo
\* SET next_seq_no = length
ReserveUpdate_Assign(table, userId, length) ==
    {IF u.id = userId THEN [u EXCEPT !.nextSeqNo = length] ELSE u : u \in table}

\* the UPDATE without its WHERE
ReserveUpdate_NoWhere(table, userId, length) ==
    {[u EXCEPT !.nextSeqNo = @ + length] : u \in table}

\* an upsert that creates the users row it does not find
ReserveUpdate_Upsert(table, userId, length) ==
    IF \A u \in table : u.id # userId
    THEN table \cup {[id |-> userId, nextSeqNo |-> 1 + length]}
    ELSE {IF u.id = userId THEN [u EXCEPT !.nextSeqNo = @ + length] ELSE u : u \in table}

\* users after UPDATE users SET next_seq_no = next_seq_no + length WHERE id = userId
ReserveUpdate(table, userId, length) ==
    {IF u.id = userId THEN [u EXCEPT !.nextSeqNo = @ + length] ELSE u : u \in table}

\* RETURNING next_seq_no, evaluated on the updated rows
ReserveReturning_After(table, userId, length) ==
    {u.nextSeqNo : u \in {r \in ReserveUpdate(table, userId, length) : r.id = userId}}

\* RETURNING next_seq_no - length, evaluated on the updated rows
ReserveReturning(table, userId, length) ==
    {u.nextSeqNo - length : u \in {r \in ReserveUpdate(table, userId, length) : r.id = userId}}

\* handleClientOperation, line 365: const seqNo = await reserveSeqNo(op.userId, db, 1)
reserveSeqNo(op) ==
    /\ started < MaxOps
    /\ started' = started + 1
    /\ users' = ReserveUpdate(users, op.userId, 1)
    /\ IF ReserveReturning(users, op.userId, 1) = {}
       THEN /\ lastResult' = "Failed to reserve sequence number"
            /\ UNCHANGED <<inflight, reservations>>
       ELSE /\ \E s \in ReserveReturning(users, op.userId, 1) :
                 /\ inflight' = inflight \cup {[op |-> op, seqNo |-> s]}
                 /\ reservations' = Append(reservations,
                        [userId |-> op.userId, firstSeqNo |-> s, length |-> 1])
            /\ UNCHANGED lastResult
    /\ UNCHANGED <<tables, merged, focus, applied, burned, batch>>

\* the handler's statement completed and handleClientOperation returns
Return(c) ==
    /\ inflight' = inflight \ {c}
    /\ lastResult' = "ok"
    /\ applied' = applied \cup {c.op}
    /\ merged' = merged + 1
    /\ UNCHANGED <<users, started, focus, reservations, burned, batch>>

\* switch (op.type) of a call that holds its sequence number
Dispatch(c, type) == c \in inflight /\ c.op.type = type

\* ------------------------------------------------------------- handlers
CardValues(op, s) ==
    [lastModified |-> op.timestamp, lastModifiedClient |-> op.clientId,
     seqNo |-> s, id |-> op.payload.id, userId |-> op.userId,
     due |-> op.payload.due, stability |-> op.payload.stability,
     difficulty |-> op.payload.difficulty,
     elapsed_days |-> op.payload.elapsed_days,
     scheduled_days |-> op.payload.scheduled_days,
     reps |-> op.payload.reps, lapses |-> op.payload.lapses,
     state |-> op.payload.state, last_review |-> op.payload.last_review]

\* a set that leaves seqNo out
CardSet_NoSeqNo(op, s) == Without(CardValues(op, s), {"id", "userId", "seqNo"})

CardSet(op, s) == Without(CardValues(op, s), {"id", "userId"})

\* the statement of handleCardOperation
CardUpsert(table, op, s) ==
    InsertOnConflictDoUpdate(table, {"id"},
        CardValues(op, s), CardSet(op, s),
        {r \in table : LwwSetWhere(CardValues(op, s), r)})

handleCardOperation(c) ==
    /\ Dispatch(c, "card")
    /\ cards' = CardUpsert(cards, c.op, c.seqNo)
    /\ Return(c)
    /\ UNCHANGED <<cardContents, cardDeleted, cardBookmarked, cardSuspended,
                   decks, reviewLogDeleted, reviewLogs, cardDecks>>

ReviewLogValues(op, s) ==
    [id |-> op.payload.id, cardId |-> op.payload.cardId, seqNo |-> s,
     lastModifiedClient |-> op.clientId,
     grade |-> op.payload.grade, state |-> op.payload.state,
     due |-> op.payload.due, stability |-> op.payload.stability,
     difficulty |-> op.payload.difficulty,
     elapsed_days |-> op.payload.elapsed_days,
     last_elapsed_days |-> op.payload.last_elapsed_days,
     scheduled_days |-> op.payload.scheduled_days,
     review |-> op.payload.review, duration |-> op.payload.duration,
     createdAt |-> op.timestamp]

\* the statement of handleReviewLogOperation
ReviewLogInsert(table, op, s) ==
    InsertOnConflictDoNothing(table, {"id"}, ReviewLogValues(op, s))

handleReviewLogOperation(c) ==
    /\ Dispatch(c, "reviewLog")
    /\ reviewLogs' = ReviewLogInsert(reviewLogs, c.op, c.seqNo)
    /\ Return(c)
    /\ UNCHANGED <<cards, cardContents, cardDeleted, cardBookmarked,
                   cardSuspended, decks, reviewLogDeleted, cardDecks>>

ReviewLogDeletedValues(op, s) ==
    [reviewLogId |-> op.payload.reviewLogId, deleted |-> op.payload.deleted,
     lastModified |-> op.timestamp, lastModifiedClient |-> op.clientId,
     seqNo |-> s]

ReviewLogDeletedSet(op, s) == Without(ReviewLogDeletedValues(op, s), {"reviewLogId"})

\* the statement of handleReviewLogDeletedOperation
ReviewLogDeletedUpsert(table, op, s) ==
    InsertOnConflictDoUpdate(table, {"reviewLogId"},
        ReviewLogDeletedValues(op, s), ReviewLogDeletedSet(op, s),
        {r \in table : LwwSetWhere(ReviewLogDeletedValues(op, s), r)})

handleReviewLogDeletedOperation(c) ==
    /\ Dispatch(c, "reviewLogDeleted")
    /\ reviewLogDeleted' = ReviewLogDeletedUpsert(reviewLogDeleted, c.op, c.seqNo)
    /\ Return(c)
    /\ UNCHANGED <<cards, cardContents, cardDeleted, cardBookmarked,
                   cardSuspended, decks, reviewLogs, cardDecks>>

CardContentValues(op, s) ==
    [cardId |-> op.payload.cardId, front |-> op.payload.front,
     back |-> op.payload.back, lastModified |-> op.timestamp,
     lastModifiedClient |-> op.clientId, seqNo |-> s]

CardContentSet(op, s) == Without(CardContentValues(op, s), {"cardId"})

\* the statement of handleCardContentOperation
CardContentUpsert(table, op, s) ==
    InsertOnConflictDoUpdate(table, {"cardId"},
        CardContentValues(op, s), CardContentSet(op, s),
        {r \in table : LwwSetWhere(CardContentValues(op, s), r)})

handleCardContentOperation(c) ==
    /\ Dispatch(c, "cardContent")
    /\ cardContents' = CardContentUpsert(cardContents, c.op, c.seqNo)
    /\ Return(c)
    /\ UNCHANGED <<cards, cardDeleted, cardBookmarked, cardSuspended,
                   decks, reviewLogDeleted, reviewLogs, cardDecks>>

CardDeletedValues(op, s) ==
    [cardId |-> op.payload.cardId, lastModified |-> op.timestamp,
     lastModifiedClient |-> op.clientId, seqNo |-> s,
     deleted |-> op.payload.deleted]

CardDeletedSet(op, s) == Without(CardDeletedValues(op, s), {"cardId"})

\* a statement that removes the row when the operation says deleted
CardDeletedUpsert_Physical(table, op, s) ==
    IF op.payload.deleted
    THEN table \ Conflicting(table, {"cardId"}, CardDeletedValues(op, s))
    ELSE InsertOnConflictDoUpdate(table, {"cardId"},
             CardDeletedValues(op, s), CardDeletedSet(op, s),
             {r \in table : LwwSetWhere(CardDeletedValues(op, s), r)})

\* the statement of handleCardDeletedOperation
CardDeletedUpsert(table, op, s) ==
    InsertOnConflictDoUpdate(table, {"cardId"},
        CardDeletedValues(op, s), CardDeletedSet(op, s),
        {r \in table : LwwSetWhere(CardDeletedValues(op, s), r)})

handleCardDeletedOperation(c) ==
    /\ Dispatch(c, "cardDeleted")
    /\ cardDeleted' = CardDeletedUpsert(cardDeleted, c.op, c.seqNo)
    /\ Return(c)
    /\ UNCHANGED <<cards, cardContents, cardBookmarked, cardSuspended,
                   decks, reviewLogDeleted, reviewLogs, cardDecks>>

CardBookmarkedValues(op, s) ==
    [cardId |-> op.payload.cardId, bookmarked |-> op.payload.bookmarked,
     lastModified |-> op.timestamp, lastModifiedClient |-> op.clientId,
     seqNo |-> s]

CardBookmarkedSet(op, s) == Without(CardBookmarkedValues(op, s), {"cardId"})

\* the statement of handleCardBookmarkedOperation
CardBookmarkedUpsert(table, op, s) ==
    InsertOnConflictDoUpdate(table, {"cardId"},
        CardBookmarkedValues(op, s), CardBookmarkedSet(op, s),
        {r \in table : LwwSetWhere(CardBookmarkedValues(op, s), r)})

handleCardBookmarkedOperation(c) ==
    /\ Dispatch(c, "cardBookmarked")
    /\ cardBookmarked' = CardBookmarkedUpsert(cardBookmarked, c.op, c.seqNo)
    /\ Return(c)
    /\ UNCHANGED <<cards, cardContents, cardDeleted, cardSuspended,
                   decks, reviewLogDeleted, reviewLogs, cardDecks>>

CardSuspendedValues(op, s) ==
    [cardId |-> op.payload.cardId, suspended |-> op.payload.suspended,
     lastModified |-> op.timestamp, lastModifiedClient |-> op.clientId,
     seqNo |-> s]

CardSuspendedSet(op, s) == Without(CardSuspendedValues(op, s), {"cardId"})

\* the statement of handleCardSuspendedOperation
CardSuspendedUpsert(table, op, s) ==
    InsertOnConflictDoUpdate(table, {"cardId"},
        CardSuspendedValues(op, s), CardSuspendedSet(op, s),
        {r \in table : LwwSetWhere(CardSuspendedValues(op, s), r)})

handleCardSuspendedOperation(c) ==
    /\ Dispatch(c, "cardSuspended")
    /\ cardSuspended' = CardSuspendedUpsert(cardSuspended, c.op, c.seqNo)
    /\ Return(c)
    /\ UNCHANGED <<cards, cardContents, cardDeleted, cardBookmarked,
                   decks, reviewLogDeleted, reviewLogs, cardDecks>>

DeckValues(op, s) ==
    [id |-> op.payload.id, name |-> op.payload.name,
     description |-> op.payload.description, deleted |-> op.payload.deleted,
     lastModified |-> op.timestamp, lastModifiedClient |-> op.clientId,
     seqNo |-> s, userId |-> op.userId]

\* a set that leaves description out
DeckSet_NoDescription(op, s) ==
    Without(DeckValues(op, s), {"id", "userId", "description"})

DeckSet(op, s) == Without(DeckValues(op, s), {"id", "userId"})

\* the statement of handleDeckOperation
DeckUpsert(table, op, s) ==
    InsertOnConflictDoUpdate(table, {"id"},
        DeckValues(op, s), DeckSet(op, s),
        {r \in table : LwwSetWhere(DeckValues(op, s), r)})

handleDeckOperation(c) ==
    /\ Dispatch(c, "deck")
    /\ decks' = DeckUpsert(decks, c.op, c.seqNo)
    /\ Return(c)
    /\ UNCHANGED <<cards, cardContents, cardDeleted, cardBookmarked,
                   cardSuspended, reviewLogDeleted, reviewLogs, cardDecks>>

CardDeckValues(op, s) ==
    [cardId |-> op.payload.cardId, deckId |-> op.payload.deckId, seqNo |-> s,
     clCount |-> op.payload.clCount, lastModified |-> op.timestamp,
     lastModifiedClient |-> op.clientId]

CardDeckSet(op, s) == Without(CardDeckValues(op, s), {"cardId", "deckId"})

\* the statement with the setWhere of the last-write-wins handlers
CardDeckUpsert_Lww(table, op, s) ==
    InsertOnConflictDoUpdate(table, {"cardId", "deckId"},
        CardDeckValues(op, s), CardDeckSet(op, s),
        {r \in table : LwwSetWhere(CardDeckValues(op, s), r)})

\* the statement of handleUpdateDeckCardOperation
CardDeckUpsert(table, op, s) ==
    InsertOnConflictDoUpdate(table, {"cardId", "deckId"},
        CardDeckValues(op, s), CardDeckSet(op, s),
        {r \in table : ClCountSetWhere(CardDeckValues(op, s), r)})

handleUpdateDeckCardOperation(c) ==
    /\ Dispatch(c, "updateDeckCard")
    /\ cardDecks' = CardDeckUpsert(cardDecks, c.op, c.seqNo)
    /\ Return(c)
    /\ UNCHANGED <<cards, cardContents, cardDeleted, cardBookmarked,
                   cardSuspended, decks, reviewLogDeleted, reviewLogs>>

\* a default branch that returns without throwing
UnknownOperationType_Ignored(c) ==
    /\ c \in inflight
    /\ c.op.type \notin OperationTypes
    /\ inflight' = inflight \ {c}
    /\ lastResult' = "ok"
    /\ UNCHANGED <<users, tables, started, merged, focus, applied, reservations,
                   burned, batch>>

\* default branch of the switch: throw new Error(`Unknown operation type: ...`)
UnknownOperationType(c) ==
    /\ c \in inflight
    /\ c.op.type \notin OperationTypes
    /\ inflight' = inflight \ {c}
    /\ lastResult' = "Unknown operation type"
    /\ UNCHANGED <<users, tables, started, merged, focus, applied, reservations,
                   burned, batch>>

\* a failing statement that takes the reservation back with it
StorageError_Rollback(c) ==
    /\ c \in inflight
    /\ c.op.type \in OperationTypes
    /\ inflight' = inflight \ {c}
    /\ lastResult' = "storage error"
    /\ burned' = burned \cup {[userId |-> c.op.userId, seqNo |-> c.seqNo]}
    /\ users' = {IF u.id = c.op.userId THEN [u EXCEPT !.nextSeqNo = @ - 1] ELSE u :
                   u \in users}
    /\ UNCHANGED <<tables, started, merged, focus, applied, reservations, batch>>

\* the handler's statement is rejected by the storage engine; the rejection
\* propagates out of handleClientOperation and nothing is written
StorageError(c) ==
    /\ c \in inflight
    /\ c.op.type \in OperationTypes
    /\ inflight' = inflight \ {c}
    /\ lastResult' = "storage error"
    /\ burned' = burned \cup {[userId |-> c.op.userId, seqNo |-> c.seqNo]}
    /\ UNCHANGED <<users, tables, started, merged, focus, applied, reservations,
                   batch>>

handleClientOperation(c) ==
    \/ handleCardOperation(c)
    \/ handleReviewLogOperation(c)
    \/ handleReviewLogDeletedOperation(c)
    \/ handleCardContentOperation(c)
    \/ handleCardDeletedOperation(c)
    \/ handleCardBookmarkedOperation(c)
    \/ handleCardSuspendedOperation(c)
    \/ handleDeckOperation(c)
    \/ handleUpdateDeckCardOperation(c)
    \/ UnknownOperationType(c)
    \/ StorageError(c)

Next ==
    \/ \E op \in Universe(focus) : reserveSeqNo(op)
    \/ \E c \in inflight : handleClientOperation(c)

Spec == Init /\ [][Next]_vars

\* ------------------------------------------- reserveSeqNo called directly
\* values of users.nextSeqNo at start and the lengths a caller passes
StartSeqNos == {1, 5}
Lengths == {1, 2, 3}

\* the store as at Init, with the nextSeqNo of one user at one of the start
\* values
ReserveInit ==
    /\ users \in {{[id |-> "u1", nextSeqNo |-> a], [id |-> "u2", nextSeqNo |-> 1]} :
                    a \in StartSeqNos}
    /\ cards = {} /\ cardContents = {} /\ cardDeleted = {}
    /\ cardBookmarked = {} /\ cardSuspended = {} /\ decks = {}
    /\ reviewLogDeleted = {} /\ reviewLogs = {} /\ cardDecks = {}
    /\ inflight = {}
    /\ lastResult = "none"
    /\ started = 0
    /\ merged = 0
    /\ focus \in RuntimeTypes
    /\ applied = {}
    /\ reservations = <<>>
    /\ burned = {}
    /\ opsBatch = <<>>
    /\ opCountResult = {}

\* one call reserveSeqNo(userId, db, length), lines 34-49
reserveSeqNoCall(userId, length) ==
    /\ started < MaxOps
    /\ started' = started + 1
    /\ users' = ReserveUpdate(users, userId, length)
    /\ IF ReserveReturning(users, userId, length) = {}
       THEN /\ lastResult' = "Failed to reserve sequence number"
            /\ UNCHANGED reservations
       ELSE /\ \E s \in ReserveReturning(users, userId, length) :
                 reservations' = Append(reservations,
                     [userId |-> userId, firstSeqNo |-> s, length |-> length])
            /\ UNCHANGED lastResult
    /\ UNCHANGED <<tables, inflight, merged, focus, applied, burned, batch>>

ReserveNext ==
    \/ \E userId \in UserIds, length \in Lengths : reserveSeqNoCall(userId, length)
    \/ \E op \in Universe(focus) : reserveSeqNo(op)
    \/ \E c \in inflight : handleClientOperation(c)

ReserveSpec == ReserveInit /\ [][ReserveNext]_vars

\* ------------------------------------------------------- validateOpCount
MAX_OPS == 10000
TOO_MANY_OPS_ERROR_MSG == "Too many operations"

\* the test with >= for >
ValidateOpCountResult_AtLeast(opArray) ==
    IF Len(opArray) >= MAX_OPS
    THEN [success |-> FALSE, error |-> TOO_MANY_OPS_ERROR_MSG]
    ELSE [success |-> TRUE]

\* the value validateOpCount returns for a batch
ValidateOpCountResult(opArray) ==
    IF Len(opArray) > MAX_OPS
    THEN [success |-> FALSE, error |-> TOO_MANY_OPS_ERROR_MSG]
    ELSE [success |-> TRUE]

\* Operation: type, timestamp and payload, before clientId and userId are added
Operations(types) ==
    UNION {[type : {t}, timestamp : Timestamps,
            payload : Payloads(t, {"c1"}, {"d1"}, {"r1"}, {1})] : t \in types}

\* batch lengths around the cap
BatchLengths ==
    {0, 1, 2, MAX_OPS - 1, MAX_OPS, MAX_OPS + 1, MAX_OPS + 2, 2 * MAX_OPS}

\* a batch of n operations o
Batch(n, o) == [i \in 1..n |-> o]

\* the store as at Init, and a batch of operations of one type
ValidateInit ==
    /\ users = {[id |-> u, nextSeqNo |-> 1] : u \in ExistingUsers}
    /\ cards = {} /\ cardContents = {} /\ cardDeleted = {}
    /\ cardBookmarked = {} /\ cardSuspended = {} /\ decks = {}
    /\ reviewLogDeleted = {} /\ reviewLogs = {} /\ cardDecks = {}
    /\ inflight = {}
    /\ lastResult = "none"
    /\ started = 0
    /\ merged = 0
    /\ focus \in RuntimeTypes
    /\ applied = {}
    /\ reservations = <<>>
    /\ burned = {}
    /\ opsBatch \in {Batch(n, o) : n \in BatchLengths, o \in Operations({focus})}
    /\ opCountResult = {}

validateOpCount ==
    /\ opCountResult = {}
    /\ opCountResult' = {ValidateOpCountResult(opsBatch)}
    /\ UNCHANGED <<users, tables, calls, focus, applied, reservations, burned,
                   opsBatch>>

ValidateNext == validateOpCount

ValidateSpec == ValidateInit /\ [][ValidateNext]_vars

\* ---------------------------------------------------- tables by op type
\* the table the switch of handleClientOperation routes each type to
TableOf(t) ==
    CASE t = "card" -> cards
      [] t = "reviewLog" -> reviewLogs
      [] t = "reviewLogDeleted" -> reviewLogDeleted
      [] t = "cardContent" -> cardContents
      [] t = "cardDeleted" -> cardDeleted
      [] t = "cardBookmarked" -> cardBookmarked
      [] t = "cardSuspended" -> cardSuspended
      [] t = "deck" -> decks
      [] t = "updateDeckCard" -> cardDecks

\* the conflict target of each handler's statement
KeyFields(t) ==
    CASE t \in {"card", "deck", "reviewLog"} -> {"id"}
      [] t = "reviewLogDeleted" -> {"reviewLogId"}
      [] t = "updateDeckCard" -> {"cardId", "deckId"}
      [] OTHER -> {"cardId"}

\* the statement the switch runs for an operation, on a given table
Statement(table, op, s) ==
    CASE op.type = "card" -> CardUpsert(table, op, s)
      [] op.type = "reviewLog" -> ReviewLogInsert(table, op, s)
      [] op.type = "reviewLogDeleted" -> ReviewLogDeletedUpsert(table, op, s)
      [] op.type = "cardContent" -> CardContentUpsert(table, op, s)
      [] op.type = "cardDeleted" -> CardDeletedUpsert(table, op, s)
      [] op.type = "cardBookmarked" -> CardBookmarkedUpsert(table, op, s)
      [] op.type = "cardSuspended" -> CardSuspendedUpsert(table, op, s)
      [] op.type = "deck" -> DeckUpsert(table, op, s)
      [] op.type = "updateDeckCard" -> CardDeckUpsert(table, op, s)

\* -------------------------------------------------- vocabulary of claims
SameKey(a, b) ==
    a.type = b.type /\ \A f \in KeyFields(a.type) : a.payload[f] = b.payload[f]

\* rows of the operation's table stored under the operation's key
RowsOf(table, op) ==
    {r \in table : \A f \in KeyFields(op.type) : r[f] = op.payload[f]}

\* completed operations on the key of op
AppliedOn(op) == {o \in applied : SameKey(o, op)}

\* the payload columns of a row, named as in the operation's payload
PayloadOfRow(r, op) == [f \in DOMAIN op.payload |-> r[f]]

\* (timestamp, clientId) of a is below that of b, clientId as a byte string
StampLess(a, b) ==
    \/ a.timestamp < b.timestamp
    \/ a.timestamp = b.timestamp /\ StrLess(a.clientId, b.clientId)

SameStamp(a, b) == a.timestamp = b.timestamp /\ a.clientId = b.clientId

\* the operations of ops no other operation of ops is above
Maximal(ops) == {m \in ops : \A o \in ops : ~StampLess(m, o)}

\* ---------------------------------------------------------------- C1
\* C1 as stated: for every key of the seven last-write-wins tables, the one
\* stored row carries the payload of every completed operation on that key
\* that is maximal under (timestamp, clientId).
C1_AsStated ==
    \A op \in applied : op.type \in LwwTypes =>
        /\ Cardinality(RowsOf(TableOf(op.type), op)) = 1
        /\ \A r \in RowsOf(TableOf(op.type), op) :
             \A m \in Maximal(AppliedOn(op)) : PayloadOfRow(r, m) = m.payload

\* C1 (amended): for every key of the seven last-write-wins tables, the one
\* stored row carries the maximal (timestamp, clientId) pair of the completed
\* operations on that key and the payload of an operation carrying that
\* pair; hence the payload of the maximal operation when a single payload
\* carries the maximal pair.
C1_LwwConvergence ==
    \A op \in applied : op.type \in LwwTypes =>
        /\ Cardinality(RowsOf(TableOf(op.type), op)) = 1
        /\ \A r \in RowsOf(TableOf(op.type), op) :
             \E m \in Maximal(AppliedOn(op)) :
                /\ PayloadOfRow(r, m) = m.payload
                /\ r.lastModified = m.timestamp
                /\ r.lastModifiedClient = m.clientId

\* two operations on one key completed, the one stamped below the other was
\* reserved later (it carries the higher seqNo), and the row holds the
\* payload of the one stamped above
C1_Witness ==
    \E m \in applied, o \in applied :
        /\ m.type \in LwwTypes /\ SameKey(m, o)
        /\ StampLess(o, m) /\ o.payload # m.payload
        /\ m.timestamp = o.timestamp
        /\ \E r \in RowsOf(TableOf(m.type), m) :
              PayloadOfRow(r, m) = m.payload /\ r.seqNo = 1
        /\ merged = 2 /\ m.userId = o.userId

\* ---------------------------------------------------------------- C2
RECURSIVE Orders(_)
\* the orders in which the operations of a set can be applied
Orders(ops) ==
    IF ops = {} THEN {<<>>}
    ELSE UNION {{<<o>> \o rest : rest \in Orders(ops \ {o})} : o \in ops}

RECURSIVE ReplayUpTo(_, _)
\* the table after the first n statements of an order, from the empty table
ReplayUpTo(order, n) ==
    IF n = 0 THEN {}
    ELSE Statement(ReplayUpTo(order, n - 1), order[n], n)

Replay(order) == ReplayUpTo(order, Len(order))

\* payload, lastModified and lastModifiedClient of a row
Visible(r) == Without(r, {"seqNo", "userId"})

\* the column the statement of the type compares in its conflict arm
MergeKey(t, r) ==
    CASE t \in LwwTypes -> <<r.lastModified, r.lastModifiedClient>>
      [] t = "updateDeckCard" -> r.clCount
      [] t = "reviewLog" -> r.id

\* what the statement of an operation writes for all to see
VisibleValues(op) == Visible(CHOOSE r \in Statement({}, op, 0) : TRUE)

\* two operations on one key between which the conflict arm does not decide
\* although their rows differ
Tied(a, b) ==
    /\ SameKey(a, b)
    /\ VisibleValues(a) # VisibleValues(b)
    /\ CASE a.type \in LwwTypes -> SameStamp(a, b)
         [] a.type = "updateDeckCard" -> a.payload.clCount = b.payload.clCount
         [] a.type = "reviewLog" -> TRUE

\* the sets of completed operations, one set per key
KeyGroups == {AppliedOn(op) : op \in applied}

\* C2 as stated: for every operation type and key, applying the completed
\* operations on that key in any order from the empty table gives the row
\* that is stored (same payload, lastModified and lastModifiedClient).
C2_AsStated ==
    \A group \in KeyGroups :
        LET op == CHOOSE o \in group : TRUE
            stored == RowsOf(TableOf(op.type), op)
        IN  \A order \in Orders(group) :
                {Visible(r) : r \in RowsOf(Replay(order), op)}
                    = {Visible(r) : r \in stored}

\* C2 (amended): for every operation type and key, applying the completed
\* operations on that key in any order from the empty table gives one row
\* with the stored row's merge key ((lastModified, lastModifiedClient) for
\* the last-write-wins types, clCount for updateDeckCard, id for reviewLog),
\* and gives the stored row itself (payload, lastModified,
\* lastModifiedClient) when no two of the operations tie on the merge key
\* with different content.
C2_OrderIndependence ==
    \A group \in KeyGroups :
        LET op == CHOOSE o \in group : TRUE
            stored == RowsOf(TableOf(op.type), op)
            untied == \A a \in group, b \in group : ~Tied(a, b)
        IN  \A order \in Orders(group) :
                LET replayed == RowsOf(Replay(order), op)
                IN  /\ Cardinality(replayed) = 1
                    /\ {MergeKey(op.type, r) : r \in replayed}
                         = {MergeKey(op.type, r) : r \in stored}
                    /\ untied =>
                         {Visible(r) : r \in replayed} = {Visible(r) : r \in stored}

\* two operations with different content and different merge keys completed
\* on one key
C2_Witness ==
    \E a \in applied, b \in applied :
        /\ SameKey(a, b) /\ ~Tied(a, b)
        /\ VisibleValues(a) # VisibleValues(b)
        /\ merged = 2

\* ---------------------------------------------------------------- C3
\* C3: in every state, running the statement of an operation that has
\* already completed, with any sequence number, leaves the operation's
\* table as it is (payload, lastModified, lastModifiedClient and seqNo of
\* the stored row stay).
C3_ReplaySafety ==
    \A op \in applied : \A s \in 1..(MaxOps + 1) :
        Statement(TableOf(op.type), op, s) = TableOf(op.type)

\* an operation was applied twice: two statements completed, one operation
C3_Witness ==
    /\ merged = 2 /\ Cardinality(applied) = 1
    /\ \E op \in applied : RowsOf(TableOf(op.type), op) # {}

\* ---------------------------------------------------------------- C4
C4_Ordered ==
    \A i \in DOMAIN reservations, j \in DOMAIN reservations :
        (i < j /\ reservations[i].userId = reservations[j].userId) =>
            reservations[i].firstSeqNo < reservations[j].firstSeqNo

C4_NoDecrease ==
    \A u \in users : \E v \in users' : v.id = u.id /\ v.nextSeqNo >= u.nextSeqNo

\* C4: of two reservations for one user, the later one returns the strictly
\* greater sequence number, and no user's nextSeqNo ever decreases.
C4_MonotoneSequence == []C4_Ordered /\ [][C4_NoDecrease]_vars

\* one user reserved twice
C4_Witness ==
    \E i \in DOMAIN reservations, j \in DOMAIN reservations :
        i < j /\ reservations[i].userId = reservations[j].userId

\* ---------------------------------------------------------------- C5
Range(r) == r.firstSeqNo .. (r.firstSeqNo + r.length - 1)

C5_Disjoint ==
    \A i \in DOMAIN reservations, j \in DOMAIN reservations :
        (i # j /\ reservations[i].userId = reservations[j].userId) =>
            Range(reservations[i]) \cap Range(reservations[j]) = {}

C5_OtherUsersKept ==
    started' # started =>
        \A u \in users :
            u \in users' \/ \E c \in inflight' \ inflight : c.op.userId = u.id

\* C5: the ranges returned to two reservations of one user are disjoint,
\* also when the calls they belong to overlap, and a reservation leaves the
\* nextSeqNo of every other user as it is.
C5_Linearizable == []C5_Disjoint /\ [][C5_OtherUsersKept]_vars

\* two calls of one user hold their numbers at the same time, while another
\* user's counter is still at its start
C5_Witness ==
    /\ \E c \in inflight, d \in inflight :
          c # d /\ c.op.userId = d.op.userId /\ c.seqNo # d.seqNo
    /\ \E u \in users : u.nextSeqNo = 1

\* ---------------------------------------------------------------- C6
C6_OneRowAsWritten ==
    /\ \A r \in reviewLogs, q \in reviewLogs : r.id = q.id => r = q
    /\ \A op \in applied : op.type = "reviewLog" => RowsOf(reviewLogs, op) # {}
    /\ \A r \in reviewLogs :
          \E op \in applied, i \in DOMAIN reservations :
             /\ op.type = "reviewLog"
             /\ reservations[i].userId = op.userId
             /\ r = ReviewLogValues(op, reservations[i].firstSeqNo)

C6_NeverUpdated ==
    /\ \A r \in reviewLogs : r \in reviewLogs'
    /\ \A c \in inflight :
          (handleReviewLogOperation(c) /\ RowsOf(reviewLogs, c.op) # {}) =>
              (reviewLogs' = reviewLogs /\ lastResult' = "ok")

\* C6: reviewLogs holds one row per id, for every completed reviewLog
\* operation, written in full by one application; a row once stored keeps
\* every field, and an application that finds the id stored completes
\* without an error and without a write.
C6_GrowOnlyIdempotence == []C6_OneRowAsWritten /\ [][C6_NeverUpdated]_vars

\* two different reviewLog operations with one id completed; one row
C6_Witness ==
    /\ merged = 2
    /\ \E a \in applied, b \in applied :
          a.type = "reviewLog" /\ SameKey(a, b) /\ a # b
    /\ Cardinality(reviewLogs) = 1

\* ---------------------------------------------------------------- C7
\* C7: from one state to the next, every (cardId, deckId) key of cardDecks
\* keeps a row and its clCount does not decrease.
C7_CounterMonotonicity ==
    [][\A r \in cardDecks : \E q \in cardDecks' :
          q.cardId = r.cardId /\ q.deckId = r.deckId /\ q.clCount >= r.clCount]_vars

\* clCount 2 is stored and an operation with clCount 1 completed on the key
C7_Witness ==
    /\ merged = 2
    /\ \E r \in cardDecks, o \in applied :
          /\ o.type = "updateDeckCard" /\ r \in RowsOf(cardDecks, o)
          /\ r.clCount = 2 /\ o.payload.clCount = 1

\* ---------------------------------------------------------------- C8
Max(ns) == CHOOSE n \in ns : \A m \in ns : m <= n

C8_StoredIsMax ==
    \A op \in applied : op.type = "updateDeckCard" =>
        /\ Cardinality(RowsOf(cardDecks, op)) = 1
        /\ \A r \in RowsOf(cardDecks, op) :
              r.clCount = Max({o.payload.clCount : o \in AppliedOn(op)})

C8_ReplacedIffGreater ==
    \A c \in inflight : handleUpdateDeckCardOperation(c) =>
        /\ RowsOf(cardDecks, c.op) = {} =>
              cardDecks' = cardDecks \cup {CardDeckValues(c.op, c.seqNo)}
        /\ \A r \in RowsOf(cardDecks, c.op) :
              IF c.op.payload.clCount > r.clCount
              THEN cardDecks' = (cardDecks \ {r}) \cup {CardDeckValues(c.op, c.seqNo)}
              ELSE cardDecks' = cardDecks

\* C8: an updateDeckCard operation replaces the stored row of its key iff
\* its clCount is strictly greater than the stored one, whatever the
\* timestamps and clientIds; the stored clCount is the maximum clCount of
\* the completed operations on the key.
C8_CounterBackedUpsert == []C8_StoredIsMax /\ [][C8_ReplacedIffGreater]_vars

\* the row written with clCount 2 at timestamp 1 survived an operation with
\* clCount 1 and timestamp 2 that was reserved later
C8_Witness ==
    /\ merged = 2
    /\ \E r \in cardDecks, o \in applied :
          /\ o.type = "updateDeckCard" /\ r \in RowsOf(cardDecks, o)
          /\ r.clCount = 2 /\ r.lastModified = 1 /\ r.seqNo = 1
          /\ o.payload.clCount = 1 /\ o.timestamp = 2
          /\ StrLess(r.lastModifiedClient, o.clientId)
          /\ Cardinality({x.userId : x \in applied}) = 1

\* ---------------------------------------------------------------- C9
\* C9 as stated: a step of a call for an operation of user U leaves every
\* cards row and every decks row that is stored with another userId as it
\* is.
C9_UserScoping ==
    [][\A c \in inflight : handleClientOperation(c) =>
          /\ \A r \in cards : r.userId # c.op.userId => r \in cards'
          /\ \A r \in decks : r.userId # c.op.userId => r \in decks']_vars

\* --------------------------------------------------------------- C10
\* C10: a call proceeds to the switch only for a userId that has a users
\* row; a call for a userId without one ends with the error of
\* reserveSeqNo, no handler runs, and the users table and the nine entity
\* tables stay as they are.
C10_SequenceAllocationFailure ==
    [][started' # started =>
          \/ \E c \in inflight' \ inflight : \E u \in users : u.id = c.op.userId
          \/ /\ lastResult' = "Failed to reserve sequence number"
             /\ inflight' = inflight /\ merged' = merged
             /\ users' = users /\ tables' = tables]_vars

\* a call failed in reserveSeqNo while rows were stored
C10_Witness ==
    /\ lastResult = "Failed to reserve sequence number"
    /\ merged = 1
    /\ \A u \in users : u.id \in ExistingUsers

\* --------------------------------------------------------------- C11
C11_NeverApplied == \A op \in applied : op.type \in OperationTypes

C11_FailsUnchanged ==
    /\ \A c \in inflight' \ inflight :
          c.op.type \notin OperationTypes => tables' = tables
    /\ \A c \in inflight \ inflight' :
          c.op.type \notin OperationTypes =>
              /\ lastResult' = "Unknown operation type"
              /\ tables' = tables /\ merged' = merged

C12_BatchCap ==
    \A r \in opCountResult :
        /\ r.success <=> Len(opsBatch) <= 10000
        /\ r.success => r = [success |-> TRUE]
        /\ ~r.success => r = [success |-> FALSE, error |-> "Too many operations"]
        /\ \A o \in Operations(RuntimeTypes) :
              ValidateOpCountResult(Batch(Len(opsBatch), o)) = r

\* a batch of 10001 operations was rejected
C12_Witness ==
    /\ Len(opsBatch) = 10001
    /\ opCountResult = {[success |-> FALSE, error |-> "Too many operations"]}

\* --------------------------------------------------------------- C13
C13_Contract ==
    IF started' = started
    THEN users' = users /\ reservations' = reservations
    ELSE \/ reservations' = reservations /\ inflight' = inflight
         \/ /\ Len(reservations') = Len(reservations) + 1
            /\ LET r == reservations'[Len(reservations')]
               IN  /\ \E u \in users :
                        /\ u.id = r.userId
                        /\ r.firstSeqNo = u.nextSeqNo
                        /\ users' = (users \ {u}) \cup
                              {[id |-> u.id, nextSeqNo |-> u.nextSeqNo + r.length]}
                   /\ \A c \in inflight' \ inflight :
                        /\ r.length = 1 /\ r.userId = c.op.userId
                        /\ c.seqNo = r.firstSeqNo

Written(t) == TableOf(t)' \ TableOf(t)

\* C14 as stated: every row that a call writes, into any of the nine
\* tables, carries the call's seqNo, lastModified = op.timestamp and
\* lastModifiedClient = op.clientId, and a cards or decks row that is
\* inserted carries userId = op.userId.
C14_AsStated ==
    [][\A c \in inflight \ inflight' : \A t \in OperationTypes :
          \A r \in Written(t) :
             /\ r.seqNo = c.seqNo
             /\ r.lastModifiedClient = c.op.clientId
             /\ "lastModified" \in DOMAIN r /\ r.lastModified = c.op.timestamp
             /\ (t \in {"card", "deck"} /\ RowsOf(TableOf(t), c.op) = {}) =>
                    r.userId = c.op.userId]_vars

\* C14 (amended): every row that a call writes carries the call's seqNo and
\* lastModifiedClient = op.clientId; in the eight tables other than
\* reviewLogs it carries lastModified = op.timestamp; a reviewLogs row
\* carries op.timestamp as createdAt and has no lastModified; a cards or
\* decks row that is inserted carries userId = op.userId.
C14_HandlerMetadata ==
    [][\A c \in inflight \ inflight' : \A t \in OperationTypes :
          \A r \in Written(t) :
             /\ r.seqNo = c.seqNo
             /\ r.lastModifiedClient = c.op.clientId
             /\ IF t = "reviewLog"
                THEN "lastModified" \notin DOMAIN r /\ r.createdAt = c.op.timestamp
                ELSE r.lastModified = c.op.timestamp
             /\ (t \in {"card", "deck"} /\ RowsOf(TableOf(t), c.op) = {}) =>
                    r.userId = c.op.userId]_vars

\* a reviewLogs row was inserted by its user's second call, at timestamp 2,
\* after a reviewLogDeleted row by the first
C14_Witness ==
    /\ \E r \in reviewLogs :
          r.seqNo = 2 /\ r.createdAt = 2 /\ "lastModified" \notin DOMAIN r
    /\ \E q \in reviewLogDeleted : q.seqNo = 1 /\ q.lastModified = 1

\* --------------------------------------------------------------- C15
\* key, payload, lastModified, lastModifiedClient and seqNo of the row an
\* operation with sequence number s gives when it is alone
RowOfCall(op, s) ==
    Without(CHOOSE r \in Statement({}, op, s) : TRUE, {"userId"})

C15_FromOneOperation ==
    \A t \in LwwTypes : \A r \in TableOf(t) :
        \E op \in applied, i \in DOMAIN reservations :
            /\ op.type = t /\ reservations[i].userId = op.userId
            /\ Without(r, {"userId"}) = RowOfCall(op, reservations[i].firstSeqNo)

C15_WrittenWhole ==
    \A c \in inflight \ inflight' : \A t \in LwwTypes :
        \A r \in Written(t) :
            c.op.type = t /\ Without(r, {"userId"}) = RowOfCall(c.op, c.seqNo)

\* C15: every row of a last-write-wins table holds the payload,
\* lastModified, lastModifiedClient and seqNo of one completed operation,
\* and a step that writes a row writes all of these from the one call that
\* takes the step, also while other calls on the same key are in flight.
C15_IndivisibleUpsert == []C15_FromOneOperation /\ [][C15_WrittenWhole]_vars

\* a call holds sequence number 1 for a key whose row was written, with
\* sequence number 2 of the same user, by a call that started after it
C15_Witness ==
    \E c \in inflight :
        /\ c.op.type \in LwwTypes /\ c.seqNo = 1
        /\ \E r \in RowsOf(TableOf(c.op.type), c.op) :
              r.seqNo = 2 /\ r.lastModified = 2 /\ c.op.timestamp = 1
        /\ \A i \in DOMAIN reservations : reservations[i].userId = c.op.userId

\* --------------------------------------------------------------- C16
\* the table each operation type is to write, by name
C16_Mapping ==
    [card |-> "cards", cardContent |-> "cardContents",
     cardDeleted |-> "cardDeleted", cardBookmarked |-> "cardBookmarked",
     cardSuspended |-> "cardSuspended", deck |-> "decks",
     reviewLogDeleted |-> "reviewLogDeleted", reviewLog |-> "reviewLogs",
     updateDeckCard |-> "cardDecks"]

\* the names of the tables a step changes
C16_Changed ==
    (IF cards' # cards THEN {"cards"} ELSE {})
    \cup (IF cardContents' # cardContents THEN {"cardContents"} ELSE {})
    \cup (IF cardDeleted' # cardDeleted THEN {"cardDeleted"} ELSE {})
    \cup (IF cardBookmarked' # cardBookmarked THEN {"cardBookmarked"} ELSE {})
    \cup (IF cardSuspended' # cardSuspended THEN {"cardSuspended"} ELSE {})
    \cup (IF decks' # decks THEN {"decks"} ELSE {})
    \cup (IF reviewLogDeleted' # reviewLogDeleted THEN {"reviewLogDeleted"} ELSE {})
    \cup (IF reviewLogs' # reviewLogs THEN {"reviewLogs"} ELSE {})
    \cup (IF cardDecks' # cardDecks THEN {"cardDecks"} ELSE {})

C16_Frame ==
    /\ started' # started => C16_Changed = {}
    /\ \A c \in inflight \ inflight' :
          IF lastResult' # "ok" THEN C16_Changed = {}
          ELSE /\ C16_Changed \subseteq {C16_Mapping[c.op.type]}
               /\ TableOf(c.op.type) \ RowsOf(TableOf(c.op.type), c.op)
                    = TableOf(c.op.type)' \ RowsOf(TableOf(c.op.type)', c.op)
               /\ Cardinality(RowsOf(TableOf(c.op.type), c.op)) <= 1
               /\ Cardinality(RowsOf(TableOf(c.op.type)', c.op)) = 1

\* C16: the reservation of a call changes no entity table, a call that ends
\* with an error changes none, and the handler step of a call for an
\* operation of type k changes at most the table mapped to k and in it at
\* most the one row with the operation's key, which exists afterwards; rows
\* of other keys and all other tables stay as they are.
C16_DispatchFrame == [][C16_Frame]_vars

\* two calls wrote two rows with different keys into one table
C16_Witness ==
    /\ merged = 2
    /\ \E t \in OperationTypes : Cardinality(TableOf(t)) = 2

\* --------------------------------------------------------------- C17
C17_NeverObserved ==
    \A b \in burned :
        /\ \A t \in OperationTypes : \A r \in TableOf(t) :
              r.seqNo = b.seqNo =>
                 \E op \in applied :
                    /\ op.userId # b.userId /\ op.type = t
                    /\ Without(r, {"userId"}) = RowOfCall(op, b.seqNo)
        /\ \A u \in users : u.id = b.userId => u.nextSeqNo > b.seqNo
        /\ Cardinality({i \in DOMAIN reservations :
                           /\ reservations[i].userId = b.userId
                           /\ b.seqNo \in Range(reservations[i])}) = 1
        /\ \A c \in inflight : c.op.userId = b.userId => c.seqNo # b.seqNo

C17_AdvanceKept ==
    \A c \in inflight \ inflight' :
        lastResult' = "storage error" => users' = users /\ tables' = tables

\* C17: the sequence number of a call whose statement failed is on no row
\* written for its user (a row carrying the same number is the row of a
\* completed operation of another user), the failure changes neither the
\* users table nor an entity table, the user's nextSeqNo stays above the
\* number, and the number was returned by one reservation of the user and
\* by no later one.
C17_BurnedNumbers == []C17_NeverObserved /\ [][C17_AdvanceKept]_vars

\* a user's first call failed in its statement and burned number 1; the
\* user's next call got number 2 and stored it
C17_Witness ==
    /\ merged = 1 /\ lastResult = "ok"
    /\ \E b \in burned :
          /\ b.seqNo = 1
          /\ [id |-> b.userId, nextSeqNo |-> 3] \in users
          /\ \E t \in OperationTypes : \E r \in TableOf(t) : r.seqNo = 2

\* --------------------------------------------------------------- C18
\* the keys stored in the table of a type
Keys(t, table) == {[f \in KeyFields(t) |-> r[f]] : r \in table}

\* C18: from one state to the next, every key stored in any of the nine
\* tables is still stored in that table.
C18_NoPhysicalDeletion ==
    [][\A t \in OperationTypes :
          Keys(t, TableOf(t)) \subseteq Keys(t, TableOf(t)')]_vars

\* a cardDeleted or reviewLogDeleted operation with deleted = true replaced
\* the row that said deleted = false, and the row is there
C18_Witness ==
    /\ merged = 2
    /\ \E a \in applied, b \in applied :
          /\ a.type \in {"cardDeleted", "reviewLogDeleted"} /\ SameKey(a, b)
          /\ ~a.payload.deleted /\ b.payload.deleted
          /\ \E r \in RowsOf(TableOf(a.type), a) : r.deleted /\ r.seqNo = 2

\* --------------------------------------------------------------- C19
\* the completed operations of type t that can have written row q
WritersOf(t, q) ==
    {op \in applied :
        op.type = t /\ Without(q, {"userId"}) = RowOfCall(op, q.seqNo)}

\* row q of the table of type t was written by an operation of user u
WrittenBy(t, q, u) ==
    WritersOf(t, q) # {} /\ \A op \in WritersOf(t, q) : op.userId = u

\* C19 as stated: every row that a handler step inserts or replaces carries
\* a seqNo strictly greater than the seqNo of every row, of any table, that
\* was written by an operation of the same user (so the seqNo of a row that
\* the user's operations replace never decreases).
C19_StampedInOrder ==
    [][\A c \in inflight \ inflight' : \A t \in OperationTypes :
          \A r \in Written(t) :
             \A t2 \in OperationTypes : \A q \in TableOf(t2) :
                WrittenBy(t2, q, c.op.userId) => r.seqNo > q.seqNo]_vars

\* --------------------------------------------------------------- C20
\* (lastModified, lastModifiedClient) of row a is below that of row b
PairLess(a, b) ==
    \/ a.lastModified < b.lastModified
    \/ /\ a.lastModified = b.lastModified
       /\ StrLess(a.lastModifiedClient, b.lastModifiedClient)

\* C20: from one state to the next, every row of a last-write-wins table
\* either stays as it is or is replaced, under its key, by a row whose
\* (lastModified, lastModifiedClient) pair is strictly greater and is the
\* (timestamp, clientId) pair of the call that takes the step; so the pair
\* stored for a key never decreases.
C20_PairMonotone ==
    [][\A t \in LwwTypes : \A r \in TableOf(t) :
          \/ r \in TableOf(t)'
          \/ \E q \in Written(t) :
                /\ \A f \in KeyFields(t) : q[f] = r[f]
                /\ PairLess(r, q)
                /\ \E c \in inflight \ inflight' :
                      /\ q.lastModified = c.op.timestamp
                      /\ q.lastModifiedClient = c.op.clientId]_vars

\* two operations with one (timestamp, clientId) pair and different payloads
\* completed on one key; the row is the one the first of them wrote
C20_Witness ==
    /\ merged = 2
    /\ \E a \in applied, b \in applied :
          /\ a.type \in LwwTypes /\ SameKey(a, b) /\ SameStamp(a, b)
          /\ a.payload # b.payload /\ a.userId = b.userId
          /\ \E r \in RowsOf(TableOf(a.type), a) :
                r.seqNo = 1 /\ PayloadOfRow(r, a) = a.payload
====
